---- MODULE Spec2Model ----
(***************************************************************************)
(* Model of the R1CS -> PLONK hint transpiler                              *)
(* (src/plonk/adaptor/alternative.rs) and of the ChunkableVector helper    *)
(* (src/resource_management/utils/mod.rs).                                 *)
(*                                                                         *)
(* The scalar field E::Fr is modelled as the integers modulo P.  A panic   *)
(* (assert!, unreachable!, arithmetic overflow) terminates the synthesis   *)
(* pass: it is modelled by the flag fatal, set by the action in which the  *)
(* panic happens; the mutations the code made before the panic are kept.   *)
(***************************************************************************)
EXTENDS Integers, Sequences, FiniteSets

\* ------------------------------------------------------------------ bounds
\* modulus of the model of the scalar field E::Fr
P == 5
\* longest linear combination handed to rewrite_lc directly
MaxTerms == 3
\* number of enforce calls in one run of Spec
MaxCalls == 2
\* number of alloc and alloc_input calls in one run of Spec
MaxAlloc == 2
\* longest vector, and largest spare capacity, given to ChunkableVector::new
MaxLen == 6
MaxSlack == 1
\* largest num_chunks given to split
MaxChunks == 5
\* width of usize in the model of ChunkableVector
UsizeBits == 8

\* ------------------------------------------------------------------- field
Fr == 0 .. (P - 1)
zero_fr == 0
one_fr == 1 % P
add(x, y) == (x + y) % P
sub(x, y) == (x + P - y) % P
mul(x, y) == (x * y) % P
negate(x) == (P - x) % P

\* ---------------------------------------------------------------- variables
\* crate::Variable: a role tag and an index
Input(i) == [role |-> "Input", idx |-> i]
Aux(i) == [role |-> "Aux", idx |-> i]
\* ConstraintSystem::one() for the Transpiler
cs_one == Input(1)

\* A linear combination is a sequence of terms <<variable, coefficient>>,
\* in the order of lc.as_ref().iter().
Term(v, k) == <<v, k>>

\* TranspilationVariant, as records of one shape
NoOp == [tag |-> "NoOp", coefs |-> <<>>, extra |-> <<>>, sub |-> <<>>]
IntoQuandaticGate(k) == [tag |-> "IntoQuandaticGate", coefs |-> k, extra |-> <<>>, sub |-> <<>>]
IntoSingleAdditionGate(k) == [tag |-> "IntoSingleAdditionGate", coefs |-> k, extra |-> <<>>, sub |-> <<>>]
IntoMultipleAdditionGates(k, o) == [tag |-> "IntoMultipleAdditionGates", coefs |-> k, extra |-> o, sub |-> <<>>]
TransformLc(ha, hb, hc) == [tag |-> "TransformLc", coefs |-> <<>>, extra |-> <<>>, sub |-> <<ha, hb, hc>>]

\* ------------------------------------------------------------- classifiers
RECURSIVE FirstOne(_, _)
\* the loop of get_constant_term: the first term on One, from position i
FirstOne(lc, i) ==
    IF i > Len(lc) THEN <<FALSE, zero_fr>>
    ELSE IF lc[i][1] = cs_one THEN <<TRUE, lc[i][2]>>
    ELSE FirstOne(lc, i + 1)

get_constant_term(lc) ==
    IF Len(lc) = 0 THEN <<TRUE, zero_fr>> ELSE FirstOne(lc, 1)

is_constant(lc) ==
    LET result == get_constant_term(lc)
    IN  IF result[1] /\ Len(lc) <= 1 THEN result ELSE <<FALSE, zero_fr>>

RECURSIVE InsertNonOne(_, _, _)
\* the loop of num_unique_values and is_linear_term: scratch.insert(var)
\* for every term whose variable is not One
InsertNonOne(lc, i, scratch) ==
    IF i > Len(lc) THEN scratch
    ELSE InsertNonOne(lc, i + 1,
            IF lc[i][1] # cs_one THEN scratch \cup {lc[i][1]} ELSE scratch)

\* contains_constant starts true and is only ever set to true
num_unique_values(lc, scratch) ==
    LET filled == InsertNonOne(lc, 1, scratch)
    IN  [contains_constant |-> TRUE,
         n |-> Cardinality(filled),
         scratch |-> {}]

RECURSIVE LastNonOneCoeff(_, _, _)
\* the loop of is_linear_term: linear_coeff = *coeff for every non-One term
LastNonOneCoeff(lc, i, acc) ==
    IF i > Len(lc) THEN acc
    ELSE LastNonOneCoeff(lc, i + 1, IF lc[i][1] # cs_one THEN lc[i][2] ELSE acc)

\* mutant: the single variable is read out of scratch without draining it
is_linear_term_keeps_scratch(lc, scratch) ==
    LET filled == InsertNonOne(lc, 1, scratch)
        linear_coeff == LastNonOneCoeff(lc, 1, zero_fr)
    IN  IF Cardinality(filled) = 1
        THEN [is_linear |-> TRUE, var |-> CHOOSE v \in filled : TRUE,
              coeff |-> linear_coeff, scratch |-> filled]
        ELSE [is_linear |-> FALSE, var |-> cs_one, coeff |-> zero_fr, scratch |-> {}]

is_linear_term(lc, scratch) ==
    LET filled == InsertNonOne(lc, 1, scratch)
        linear_coeff == LastNonOneCoeff(lc, 1, zero_fr)
    IN  IF Cardinality(filled) = 1
        THEN [is_linear |-> TRUE, var |-> CHOOSE v \in filled : TRUE,
              coeff |-> linear_coeff, scratch |-> {}]
        ELSE [is_linear |-> FALSE, var |-> cs_one, coeff |-> zero_fr, scratch |-> {}]

\* mutant: the constant of C is not subtracted from the constant term
is_quadratic_gate_ignores_c(a, b, c, scratch) ==
    LET cc == is_constant(c)
        ac == get_constant_term(a)
        bc == get_constant_term(b)
        al == is_linear_term(a, scratch)
        bl == is_linear_term(b, al.scratch)
    IN  IF cc[1] /\ ac[1] /\ al.is_linear /\ bc[1] /\ bl.is_linear /\ al.var = bl.var
        THEN [is_quadratic |-> TRUE,
              coeffs |-> <<mul(ac[2], bc[2]),
                           add(mul(ac[2], bl.coeff), mul(bc[2], al.coeff)),
                           mul(al.coeff, bl.coeff)>>,
              scratch |-> bl.scratch]
        ELSE [is_quadratic |-> FALSE, coeffs |-> <<zero_fr, zero_fr, zero_fr>>,
              scratch |-> scratch]

is_quadratic_gate(a, b, c, scratch) ==
    LET cc == is_constant(c)
        ac == get_constant_term(a)
        bc == get_constant_term(b)
        al == is_linear_term(a, scratch)
        bl == is_linear_term(b, al.scratch)
        quadratic_term == mul(al.coeff, bl.coeff)
        linear_term == add(mul(ac[2], bl.coeff), mul(bc[2], al.coeff))
        constant_term == IF cc[2] # zero_fr
                         THEN sub(mul(ac[2], bc[2]), cc[2])
                         ELSE mul(ac[2], bc[2])
    IN  IF ~cc[1]
        THEN [is_quadratic |-> FALSE, coeffs |-> <<zero_fr, zero_fr, zero_fr>>,
              scratch |-> scratch]
        ELSE IF ac[1] /\ al.is_linear /\ bc[1] /\ bl.is_linear /\ al.var = bl.var
        THEN [is_quadratic |-> TRUE,
              coeffs |-> <<constant_term, linear_term, quadratic_term>>,
              scratch |-> bl.scratch]
        ELSE [is_quadratic |-> FALSE, coeffs |-> <<zero_fr, zero_fr, zero_fr>>,
              scratch |-> bl.scratch]

\* -------------------------------------------------------------- Transpiler
\* A Transpiler value: the fields of the struct.
Self(cci, inp, aux, scr, hs) ==
    [current_constraint_index |-> cci,
     current_plonk_input_idx |-> inp,
     current_plonk_aux_idx |-> aux,
     scratch |-> scr,
     hints |-> hs]

\* Transpiler::new
new == Self(0, 1, 0, {}, <<>>)

\* mutant: the number returned is the counter after the increment
increment_lc_number_returns_new(t) ==
    [t |-> [t EXCEPT !.current_constraint_index = @ + 1],
     current_lc_number |-> t.current_constraint_index + 1]

increment_lc_number(t) ==
    [t |-> [t EXCEPT !.current_constraint_index = @ + 1],
     current_lc_number |-> t.current_constraint_index]

\* mutant: the handle is minted without advancing the counter
alloc_keeps_counter(t) ==
    [t |-> t, var |-> Aux(t.current_plonk_aux_idx + 1)]

alloc(t) ==
    [t |-> [t EXCEPT !.current_plonk_aux_idx = @ + 1],
     var |-> Aux(t.current_plonk_aux_idx + 1)]

\* mutant: the handle carries the counter as it was before the increment
alloc_input_returns_old(t) ==
    [t |-> [t EXCEPT !.current_plonk_input_idx = @ + 1],
     var |-> Input(t.current_plonk_input_idx)]

alloc_input(t) ==
    [t |-> [t EXCEPT !.current_plonk_input_idx = @ + 1],
     var |-> Input(t.current_plonk_input_idx + 1)]

\* The result of a rewriter: ok is FALSE when the call panicked, and then t
\* is the Transpiler as the panic left it.
Panicked(t) == [ok |-> FALSE, t |-> t, var |-> cs_one, hint |-> NoOp]
Returned(t, var, hint) == [ok |-> TRUE, t |-> t, var |-> var, hint |-> hint]

RECURSIVE SingleLoop(_, _, _)
\* the loop of rewrite_lc_into_single_addition_gate;
\* acc = [constant_term, found_a, a_coeff, b_coeff]
SingleLoop(lc, i, acc) ==
    IF i > Len(lc) THEN acc
    ELSE SingleLoop(lc, i + 1,
            IF lc[i][1] = cs_one THEN [acc EXCEPT !.constant_term = lc[i][2]]
            ELSE IF ~acc.found_a
                 THEN [acc EXCEPT !.found_a = TRUE, !.a_coeff = lc[i][2]]
                 ELSE [acc EXCEPT !.b_coeff = lc[i][2]])

rewrite_lc_into_single_addition_gate(lc, t) ==
    LET nu == num_unique_values(lc, t.scratch)
        t1 == [t EXCEPT !.scratch = nu.scratch]
        acc == SingleLoop(lc, 1, [constant_term |-> zero_fr, found_a |-> FALSE,
                                  a_coeff |-> zero_fr, b_coeff |-> zero_fr])
        c_coeff == negate(one_fr)
        al == alloc(t1)
    IN  IF ~(nu.n > 0 /\ nu.n <= 2) THEN Panicked(t1)
        ELSE Returned(al.t, al.var,
                 IntoSingleAdditionGate(
                     <<acc.a_coeff, acc.b_coeff, c_coeff, acc.constant_term>>))

RECURSIVE FirstLoop(_, _, _)
\* the first loop of rewrite_lc_into_multiple_addition_gates: consumes the
\* iterator up to and including the second non-One term; pos is the position
\* of the last term consumed
FirstLoop(lc, i, acc) ==
    IF i > Len(lc) THEN [acc EXCEPT !.pos = Len(lc)]
    ELSE IF lc[i][1] = cs_one THEN FirstLoop(lc, i + 1, acc)
    ELSE IF ~acc.found_a
         THEN FirstLoop(lc, i + 1, [acc EXCEPT !.found_a = TRUE, !.a_coeff = lc[i][2]])
         ELSE [acc EXCEPT !.b_coeff = lc[i][2], !.pos = i]

RECURSIVE ExtraLoop(_, _, _)
\* the second loop: one extra coefficient and one alloc per remaining
\* non-One term; acc = [t, var, extra]
ExtraLoop(lc, i, acc) ==
    IF i > Len(lc) THEN acc
    ELSE IF lc[i][1] = cs_one THEN ExtraLoop(lc, i + 1, acc)
    ELSE LET al == alloc(acc.t)
         IN  ExtraLoop(lc, i + 1,
                 [t |-> al.t, var |-> al.var, extra |-> Append(acc.extra, lc[i][2])])

rewrite_lc_into_multiple_addition_gates(lc, t) ==
    LET nu == num_unique_values(lc, t.scratch)
        t1 == [t EXCEPT !.scratch = nu.scratch]
        constant_term == get_constant_term(lc)[2]
        first == FirstLoop(lc, 1, [found_a |-> FALSE, a_coeff |-> zero_fr,
                                   b_coeff |-> zero_fr, pos |-> 0])
        c_coeff == negate(one_fr)
        al == alloc(t1)
        rest == ExtraLoop(lc, first.pos + 1,
                          [t |-> al.t, var |-> al.var, extra |-> <<>>])
    IN  IF ~(nu.n > 0 /\ nu.n <= 2) THEN Panicked(t1)
        ELSE IF ~(Len(lc) > 2) THEN Panicked(t1)
        ELSE Returned(rest.t, rest.var,
                 IntoMultipleAdditionGates(
                     <<first.a_coeff, first.b_coeff, c_coeff, constant_term>>,
                     rest.extra))

\* mutant: the free term is subtracted before the scaling, not after it
ScaleCoefs_subtracts_first(k, multiplier, free_term_constant) ==
    IF multiplier = zero_fr THEN k
    ELSE [i \in 1..4 |->
            IF i = 4 THEN mul(sub(k[4], free_term_constant), multiplier)
            ELSE mul(k[i], multiplier)]

\* the scaling step shared by both arms of rewrite_lc
ScaleCoefs(k, multiplier, free_term_constant) ==
    IF multiplier = zero_fr THEN k
    ELSE LET s == IF multiplier # one_fr
                  THEN [i \in 1..4 |-> mul(k[i], multiplier)]
                  ELSE k
         IN  [s EXCEPT ![4] = sub(s[4], free_term_constant)]

ScaleExtra(o, multiplier) ==
    IF multiplier = zero_fr \/ multiplier = one_fr THEN o
    ELSE [i \in 1..Len(o) |-> mul(o[i], multiplier)]

\* mutant: a zero multiplier with a nonzero free term is let through
ScaleSingle_without_assert(r, multiplier, free_term_constant) ==
    IF ~r.ok THEN r
    ELSE Returned(r.t, r.var,
             IntoSingleAdditionGate(
                 ScaleCoefs(r.hint.coefs, multiplier, free_term_constant)))

\* rewrite_lc, arm num_linear_terms <= 2, after the rewriter returned r
ScaleSingle(r, multiplier, free_term_constant) ==
    IF ~r.ok THEN r
    ELSE IF multiplier = zero_fr /\ free_term_constant # zero_fr THEN Panicked(r.t)
    ELSE Returned(r.t, r.var,
             IntoSingleAdditionGate(
                 ScaleCoefs(r.hint.coefs, multiplier, free_term_constant)))

\* rewrite_lc, arm num_linear_terms > 2, after the rewriter returned r
ScaleMultiple(r, multiplier, free_term_constant) ==
    IF ~r.ok THEN r
    ELSE IF multiplier = zero_fr /\ free_term_constant # zero_fr THEN Panicked(r.t)
    ELSE Returned(r.t, r.var,
             IntoMultipleAdditionGates(
                 ScaleCoefs(r.hint.coefs, multiplier, free_term_constant),
                 ScaleExtra(r.hint.extra, multiplier)))

\* rewrite_lc after its call of num_unique_values returned nu
RewriteLcCounted(nu, t, lc, multiplier, free_term_constant) ==
    IF ~(nu.n > 0) THEN Panicked([t EXCEPT !.scratch = nu.scratch])
    ELSE IF nu.n <= 2
    THEN ScaleSingle(
             rewrite_lc_into_single_addition_gate(lc, [t EXCEPT !.scratch = nu.scratch]),
             multiplier, free_term_constant)
    ELSE ScaleMultiple(
             rewrite_lc_into_multiple_addition_gates(lc, [t EXCEPT !.scratch = nu.scratch]),
             multiplier, free_term_constant)

rewrite_lc(t, lc, multiplier, free_term_constant) ==
    RewriteLcCounted(num_unique_values(lc, t.scratch), t, lc,
                     multiplier, free_term_constant)

\* Record of one rewrite_lc call made by enforce (history only): the
\* linear combination, the counters before the call and the call's result.
RewriteCall(t, lc, r) ==
    [lc |-> lc,
     pre_aux |-> t.current_plonk_aux_idx,
     pre_input |-> t.current_plonk_input_idx,
     ok |-> r.ok,
     post_aux |-> r.t.current_plonk_aux_idx,
     post_input |-> r.t.current_plonk_input_idx,
     var |-> r.var]

\* let current_lc_number = self.increment_lc_number();
\* self.hints.push((current_lc_number, hint));
PushNumbered(n, hint) ==
    [n.t EXCEPT !.hints = Append(@, <<n.current_lc_number, hint>>)]

PushHint(t, hint) == PushNumbered(increment_lc_number(t), hint)

\* enforce, arm (true, false, true) | (false, true, true), after rewrite_lc
\* returned r
PushRewritten(t, lc_ref, r) ==
    IF ~r.ok THEN [ok |-> FALSE, t |-> r.t, rw |-> <<RewriteCall(t, lc_ref, r)>>]
    ELSE [ok |-> TRUE, t |-> PushHint(r.t, r.hint), rw |-> <<RewriteCall(t, lc_ref, r)>>]

EnforceOneConstant(t, lc_ref, multiplier, c_constant_coeff) ==
    PushRewritten(t, lc_ref, rewrite_lc(t, lc_ref, multiplier, c_constant_coeff))

\* enforce, arm (false, false, true), after is_quadratic_gate returned q
PushQuadratic(t, q) ==
    IF q.is_quadratic
    THEN [ok |-> TRUE,
          t |-> PushHint([t EXCEPT !.scratch = q.scratch], IntoQuandaticGate(q.coeffs)),
          rw |-> <<>>]
    ELSE [ok |-> TRUE, t |-> [t EXCEPT !.scratch = q.scratch], rw |-> <<>>]

EnforceQuadratic(t, a, b, c) ==
    PushQuadratic(t, is_quadratic_gate(a, b, c, t.scratch))

\* enforce, arm (false, false, false): the three rewrite_lc calls in turn
GeneralC(wa, wb, ra, rb, t, c, rc) ==
    IF ~rc.ok THEN [ok |-> FALSE, t |-> rc.t, rw |-> <<wa, wb, RewriteCall(t, c, rc)>>]
    ELSE [ok |-> TRUE,
          t |-> PushHint(rc.t, TransformLc(ra.hint, rb.hint, rc.hint)),
          rw |-> <<wa, wb, RewriteCall(t, c, rc)>>]

GeneralB(wa, ra, t, b, c, rb) ==
    IF ~rb.ok THEN [ok |-> FALSE, t |-> rb.t, rw |-> <<wa, RewriteCall(t, b, rb)>>]
    ELSE GeneralC(wa, RewriteCall(t, b, rb), ra, rb, rb.t, c,
                  rewrite_lc(rb.t, c, one_fr, zero_fr))

GeneralA(t, a, b, c, ra) ==
    IF ~ra.ok THEN [ok |-> FALSE, t |-> ra.t, rw |-> <<RewriteCall(t, a, ra)>>]
    ELSE GeneralB(RewriteCall(t, a, ra), ra, ra.t, b, c,
                  rewrite_lc(ra.t, b, one_fr, zero_fr))

EnforceGeneral(t, a, b, c) ==
    GeneralA(t, a, b, c, rewrite_lc(t, a, one_fr, zero_fr))

\* enforce, the arms of the match other than (true, true, true)
EnforceNonConstant(t, a, b, c, ac, bc, cc) ==
    IF ac[1] /\ ~bc[1] /\ cc[1] THEN EnforceOneConstant(t, b, ac[2], cc[2])
    ELSE IF ~ac[1] /\ bc[1] /\ cc[1] THEN EnforceOneConstant(t, a, bc[2], cc[2])
    ELSE IF ~ac[1] /\ ~bc[1] /\ cc[1] THEN EnforceQuadratic(t, a, b, c)
    ELSE IF ac[1] # bc[1] THEN [ok |-> TRUE, t |-> t, rw |-> <<>>]
    ELSE EnforceGeneral(t, a, b, c)

\* mutant: a constraint on three constants is accepted as a no-op
EnforceMatch_accepts_constants(t, a, b, c, ac, bc, cc) ==
    IF ac[1] /\ bc[1] /\ cc[1] THEN [ok |-> TRUE, t |-> t, rw |-> <<>>]
    ELSE EnforceNonConstant(t, a, b, c, ac, bc, cc)

\* enforce after the three is_constant calls returned ac, bc, cc
EnforceMatch(t, a, b, c, ac, bc, cc) ==
    IF ac[1] /\ bc[1] /\ cc[1] THEN [ok |-> FALSE, t |-> t, rw |-> <<>>]
    ELSE EnforceNonConstant(t, a, b, c, ac, bc, cc)

enforce(t, a, b, c) ==
    EnforceMatch(t, a, b, c, is_constant(a), is_constant(b), is_constant(c))

\* --------------------------------------------------------- ChunkableVector
\* A Vec<T> is modelled by its length and its capacity.
Vec(len, cap) == [len |-> len, cap |-> cap]

UsizeModulus == 2 ^ UsizeBits

get_chunk_size(num_elements, num_chunks) ==
    IF num_elements <= num_chunks THEN 1
    ELSE IF num_elements % num_chunks = 0
         THEN num_elements \div num_chunks
         ELSE num_elements \div num_chunks + 1

\* x - y on usize: with overflow checks a panic, without them the wrapped
\* difference
USub(x, y, checked) ==
    IF x >= y THEN [ok |-> TRUE, v |-> x - y]
    ELSE IF checked THEN [ok |-> FALSE, v |-> 0]
    ELSE [ok |-> TRUE, v |-> (x - y + UsizeModulus) % UsizeModulus]

\* x + y on usize, likewise
UAdd(x, y, checked) ==
    IF x + y < UsizeModulus THEN [ok |-> TRUE, v |-> x + y]
    ELSE IF checked THEN [ok |-> FALSE, v |-> 0]
    ELSE [ok |-> TRUE, v |-> (x + y) % UsizeModulus]

RECURSIVE SplitLoop(_, _, _, _, _, _)
\* the loop of split, with i iterations left, and the final chunk
SplitLoop(i, chunk_size, remaining_elements, remaining_capacity, result, checked) ==
    IF i = 0
    THEN [ok |-> TRUE,
          chunks |-> Append(result, Vec(remaining_elements, remaining_capacity))]
    ELSE IF ~USub(remaining_elements, chunk_size, checked).ok
              \/ ~USub(remaining_capacity, chunk_size, checked).ok
    THEN [ok |-> FALSE, chunks |-> result]
    ELSE SplitLoop(i - 1, chunk_size,
                   USub(remaining_elements, chunk_size, checked).v,
                   USub(remaining_capacity, chunk_size, checked).v,
                   Append(result, Vec(chunk_size, chunk_size)), checked)

\* split of Single(elements)
split(elements, num_chunks, checked) ==
    IF get_chunk_size(elements.len, num_chunks) = 1
    THEN [ok |-> TRUE, chunks |-> <<elements>>]
    ELSE SplitLoop(num_chunks - 1, get_chunk_size(elements.len, num_chunks),
                   elements.len, elements.cap, <<>>, checked)

RECURSIVE SumLen(_, _, _)
\* chunks.iter().map(|el| el.len()).sum()
SumLen(chunks, i, checked) ==
    IF i > Len(chunks) THEN [ok |-> TRUE, v |-> 0]
    ELSE IF ~SumLen(chunks, i + 1, checked).ok THEN [ok |-> FALSE, v |-> 0]
    ELSE UAdd(chunks[i].len, SumLen(chunks, i + 1, checked).v, checked)

RECURSIVE SumCap(_, _, _)
\* chunks.iter().map(|el| el.capacity()).sum()
SumCap(chunks, i, checked) ==
    IF i > Len(chunks) THEN [ok |-> TRUE, v |-> 0]
    ELSE IF ~SumCap(chunks, i + 1, checked).ok THEN [ok |-> FALSE, v |-> 0]
    ELSE UAdd(chunks[i].cap, SumCap(chunks, i + 1, checked).v, checked)

\* merge of Multiple(chunks)
merge(chunks, checked) ==
    IF Len(chunks) = 0 THEN [ok |-> TRUE, elements |-> Vec(0, 0)]
    ELSE IF ~SumLen(chunks, 1, checked).ok \/ ~SumCap(chunks, 1, checked).ok
    THEN [ok |-> FALSE, elements |-> Vec(0, 0)]
    ELSE [ok |-> TRUE,
          elements |-> Vec(SumLen(chunks, 1, checked).v, SumCap(chunks, 1, checked).v)]

\* ------------------------------------------------------------------ state
VARIABLES
    current_constraint_index,   \* Transpiler.current_constraint_index
    current_plonk_input_idx,    \* Transpiler.current_plonk_input_idx
    current_plonk_aux_idx,      \* Transpiler.current_plonk_aux_idx
    scratch,                    \* Transpiler.scratch
    hints,                      \* Transpiler.hints
    fatal,                      \* a panic has terminated the pass
    calls,                      \* history: calls that returned, per operation
    last,                       \* history: the last call, the counters before it, its result
    minted,                     \* history: the handles returned so far, in minting order
    args,                       \* SpecCall: the arguments of the one call of the run
    cv                          \* SpecChunk: the ChunkableVector under test

vars == <<current_constraint_index, current_plonk_input_idx, current_plonk_aux_idx,
          scratch, hints, fatal, calls, last, minted, args, cv>>

transpiler == <<current_constraint_index, current_plonk_input_idx,
                current_plonk_aux_idx, scratch, hints, fatal, calls, last, minted>>

\* the Transpiler of the current state
this == Self(current_constraint_index, current_plonk_input_idx,
             current_plonk_aux_idx, scratch, hints)

\* the Transpiler of the next state is t
Becomes(t) ==
    /\ current_constraint_index' = t.current_constraint_index
    /\ current_plonk_input_idx' = t.current_plonk_input_idx
    /\ current_plonk_aux_idx' = t.current_plonk_aux_idx
    /\ scratch' = t.scratch
    /\ hints' = t.hints

\* the counters before a call
Pre == [cci |-> current_constraint_index,
        input |-> current_plonk_input_idx,
        aux |-> current_plonk_aux_idx,
        nhints |-> Len(hints)]

NoRet == [ok |-> TRUE, var |-> cs_one, hint |-> NoOp]
NoArgs == [op |-> "none", a |-> <<>>, b |-> <<>>, c |-> <<>>, m |-> 0, f |-> 0]
\* cv: variant is "Single", "Multiple", "Returned" (into_single gave the
\* vector back) or "Panicked"; chunks holds the vector, or the chunks; checked
\* says whether the build checks arithmetic overflow; original is the vector
\* given to new, and num_chunks the argument of the last split (history).
\* panic is the message of the panic, if any.
NoVec == [variant |-> "None", chunks |-> <<>>, checked |-> TRUE,
          original |-> Vec(0, 0), num_chunks |-> 0, panic |-> ""]

\* the state after Transpiler::new()
Fresh ==
    /\ current_constraint_index = new.current_constraint_index
    /\ current_plonk_input_idx = new.current_plonk_input_idx
    /\ current_plonk_aux_idx = new.current_plonk_aux_idx
    /\ scratch = new.scratch
    /\ hints = new.hints
    /\ fatal = FALSE
    /\ calls = [enforce |-> 0, alloc |-> 0, alloc_input |-> 0]
    /\ last = [op |-> "new", pre |-> [cci |-> 0, input |-> 1, aux |-> 0, nhints |-> 0],
               rw |-> <<>>, ret |-> NoRet]
    /\ minted = <<>>

\* ----------------------------------------------------------------- inputs
X == Aux(1)
Y == Aux(2)
Z == Input(2)

\* the bare constants: the empty combination and a single term on One
ConstLCs == {<<>>} \cup {<<Term(cs_one, k)>> : k \in Fr}

\* combinations of one variable, with and without a term on One, in both orders
LinLCs(v) ==
    {<<Term(v, k1), Term(cs_one, k0)>> : k1 \in Fr, k0 \in Fr}
    \cup {<<Term(cs_one, k0), Term(v, k1)>> : k1 \in Fr, k0 \in Fr}
    \cup {<<Term(v, k1)>> : k1 \in Fr}

\* Spec: one combination of every shape the classifiers tell apart
ShapeLCs ==
    {<<>>, <<Term(cs_one, one_fr)>>,
     <<Term(X, one_fr), Term(cs_one, negate(one_fr))>>,
     <<Term(X, negate(one_fr)), Term(Y, one_fr)>>,
     <<Term(X, one_fr), Term(Y, one_fr), Term(Z, one_fr)>>}

\* SpecCall: the sequences of at most MaxTerms terms over One, X, Y, Z with
\* coefficients 1 and 2
RewriteTerms == {Term(v, k) : v \in {cs_one, X, Y, Z}, k \in {1, 2 % P}}
RewriteLCs == UNION {[1..n -> RewriteTerms] : n \in 0..MaxTerms}

EnforceArg(a, b, c) == [op |-> "enforce", a |-> a, b |-> b, c |-> c, m |-> 0, f |-> 0]
RewriteArg(lc, m, f) == [op |-> "rewrite_lc", a |-> lc, b |-> <<>>, c |-> <<>>, m |-> m, f |-> f]

\* SpecCall: the arguments of the one call
ChooseArgs ==
    \/ \E a \in ConstLCs \cup LinLCs(X),
          b \in ConstLCs \cup LinLCs(X) \cup LinLCs(Y),
          c \in ConstLCs \cup {<<Term(X, 1)>>, <<Term(X, 2 % P), Term(cs_one, 1)>>} :
          args = EnforceArg(a, b, c)
    \/ \E a \in LinLCs(X), b \in ConstLCs : args = EnforceArg(a, b, a)
    \/ \E lc \in RewriteLCs, m \in Fr, f \in Fr : args = RewriteArg(lc, m, f)

\* ---------------------------------------------------------------- actions
\* the handles the rewrite_lc calls rw handed back to enforce, in call order:
\* a call that returns hands back the handle of its last alloc (the chain
\* rewriter, the only one that allocates more than once, reaches no alloc)
MintedBy(rw) ==
    [i \in 1..Len(SelectSeq(rw, LAMBDA w : w.ok)) |->
        SelectSeq(rw, LAMBDA w : w.ok)[i].var]

\* the call op returned r: the Transpiler becomes r.t
Return(op, r) ==
    /\ Becomes(r.t)
    /\ last' = [op |-> op, pre |-> Pre, rw |-> <<>>,
                ret |-> [ok |-> TRUE, var |-> r.var, hint |-> NoOp]]
    /\ minted' = Append(minted, r.var)

Alloc ==
    /\ ~fatal
    /\ calls.alloc + calls.alloc_input < MaxAlloc
    /\ Return("alloc", alloc(this))
    /\ calls' = [calls EXCEPT !.alloc = @ + 1]
    /\ UNCHANGED <<fatal, args, cv>>

AllocInput ==
    /\ ~fatal
    /\ calls.alloc + calls.alloc_input < MaxAlloc
    /\ Return("alloc_input", alloc_input(this))
    /\ calls' = [calls EXCEPT !.alloc_input = @ + 1]
    /\ UNCHANGED <<fatal, args, cv>>

\* enforce returned, or panicked, with r
EnforceEnds(r) ==
    /\ Becomes(r.t)
    /\ fatal' = ~r.ok
    /\ calls' = IF r.ok THEN [calls EXCEPT !.enforce = @ + 1] ELSE calls
    /\ last' = [op |-> "enforce", pre |-> Pre, rw |-> r.rw,
                ret |-> [ok |-> r.ok, var |-> cs_one, hint |-> NoOp]]
    /\ minted' = minted \o MintedBy(r.rw)

\* one call of enforce with the combinations a, b, c
DoEnforce(a, b, c) == EnforceEnds(enforce(this, a, b, c))

Enforce ==
    /\ ~fatal
    /\ calls.enforce < MaxCalls
    /\ \E a \in ShapeLCs, b \in ShapeLCs, c \in ShapeLCs : DoEnforce(a, b, c)
    /\ UNCHANGED <<args, cv>>

\* SpecCall: the one call of enforce
CallEnforce ==
    /\ last.op = "new"
    /\ args.op = "enforce"
    /\ DoEnforce(args.a, args.b, args.c)
    /\ UNCHANGED <<args, cv>>

\* rewrite_lc(lc, ..) returned, or panicked, with r
RewriteLcEnds(lc, r) ==
    /\ Becomes(r.t)
    /\ fatal' = ~r.ok
    /\ last' = [op |-> "rewrite_lc", pre |-> Pre, rw |-> <<RewriteCall(this, lc, r)>>,
                ret |-> [ok |-> r.ok, var |-> r.var, hint |-> r.hint]]
    /\ minted' = minted \o MintedBy(<<RewriteCall(this, lc, r)>>)

\* SpecCall: the one call of rewrite_lc
CallRewriteLc ==
    /\ last.op = "new"
    /\ args.op = "rewrite_lc"
    /\ RewriteLcEnds(args.a, rewrite_lc(this, args.a, args.m, args.f))
    /\ UNCHANGED <<calls, args, cv>>

\* the call returned the variant v holding chunks, or panicked with msg
VecBecomes(ok, v, chunks, msg) ==
    cv' = IF ok THEN [cv EXCEPT !.variant = v, !.chunks = chunks]
          ELSE [cv EXCEPT !.variant = "Panicked", !.panic = msg]

\* split(num_chunks) returned, or panicked, with r
SplitEnds(num_chunks, r) ==
    cv' = IF r.ok
          THEN [cv EXCEPT !.variant = "Multiple", !.chunks = r.chunks,
                          !.num_chunks = num_chunks]
          ELSE [cv EXCEPT !.variant = "Panicked", !.num_chunks = num_chunks,
                          !.panic = "attempt to subtract with overflow"]

Split ==
    /\ cv.variant \in {"Single", "Multiple"}
    /\ \E num_chunks \in 1..MaxChunks :
          IF cv.variant = "Single"
          THEN SplitEnds(num_chunks, split(cv.chunks[1], num_chunks, cv.checked))
          ELSE VecBecomes(FALSE, "Panicked", <<>>, "value is not a single chunk")
    /\ UNCHANGED <<transpiler, args>>

\* merge returned, or panicked, with r, and the vector became the variant v
MergeEnds(v, r) ==
    VecBecomes(r.ok, v, <<r.elements>>, "attempt to add with overflow")

Merge ==
    /\ cv.variant \in {"Single", "Multiple"}
    /\ IF cv.variant = "Multiple"
       THEN MergeEnds("Single", merge(cv.chunks, cv.checked))
       ELSE VecBecomes(FALSE, "Panicked", <<>>, "value is not a multi-chunk")
    /\ UNCHANGED <<transpiler, args>>

IntoSingle ==
    /\ cv.variant \in {"Single", "Multiple"}
    /\ IF cv.variant = "Single"
       THEN VecBecomes(TRUE, "Returned", cv.chunks, "")
       ELSE MergeEnds("Returned", merge(cv.chunks, cv.checked))
    /\ UNCHANGED <<transpiler, args>>

\* ---------------------------------------------------------- specifications
Init == Fresh /\ args = NoArgs /\ cv = NoVec
Next == Alloc \/ AllocInput \/ Enforce
Spec == Init /\ [][Next]_vars

InitCall == Fresh /\ ChooseArgs /\ cv = NoVec
NextCall == CallEnforce \/ CallRewriteLc
SpecCall == InitCall /\ [][NextCall]_vars

InitChunk ==
    /\ Fresh
    /\ args = NoArgs
    /\ \E len \in 0..MaxLen, slack \in 0..MaxSlack, checked \in BOOLEAN :
          cv = [variant |-> "Single", chunks |-> <<Vec(len, len + slack)>>,
                checked |-> checked, original |-> Vec(len, len + slack),
                num_chunks |-> 0, panic |-> ""]
NextChunk == Split \/ Merge \/ IntoSingle
SpecChunk == InitChunk /\ [][NextChunk]_vars

\* ------------------------------------------------------------------ claims
\* vocabulary of the claims, defined on the linear combinations themselves
IsBare(lc) == Len(lc) = 0 \/ (Len(lc) = 1 /\ lc[1][1] = cs_one)
BareValue(lc) == IF Len(lc) = 0 THEN zero_fr ELSE lc[1][2]
DistinctVars(lc) == {lc[i][1] : i \in 1..Len(lc)} \ {cs_one}
NumVars(lc) == Cardinality(DistinctVars(lc))
\* k1*v + k0: one term on a variable and an explicit term on One, in
\* either order
IsLinear(lc) ==
    /\ Len(lc) = 2
    /\ (lc[1][1] = cs_one) # (lc[2][1] = cs_one)
VarOf(lc) == IF lc[1][1] = cs_one THEN lc[2][1] ELSE lc[1][1]
VarCoeff(lc) == IF lc[1][1] = cs_one THEN lc[2][2] ELSE lc[1][2]
OneCoeff(lc) == IF lc[1][1] = cs_one THEN lc[1][2] ELSE lc[2][2]
CountersKept ==
    /\ current_constraint_index = last.pre.cci
    /\ current_plonk_input_idx = last.pre.input
    /\ current_plonk_aux_idx = last.pre.aux

\* C1: every enforce call that returns appends exactly one hint, so the
\* number of hints equals the number of enforce calls that returned.
C1_EveryEnforceAppendsOneHint == Len(hints) = calls.enforce

\* C2: the i-th hint carries index i - 1 (indices start at 0, increase by one,
\* have no gaps), current_constraint_index equals the number of hints, and an
\* enforce call advances the counter by one exactly when it pushes a hint.
C2_HintIndicesAreDense ==
    /\ \A i \in 1..Len(hints) : hints[i][1] = i - 1
    /\ current_constraint_index = Len(hints)
    /\ last.op = "enforce" =>
          /\ Len(hints) - last.pre.nhints \in {0, 1}
          /\ current_constraint_index - last.pre.cci = Len(hints) - last.pre.nhints
    /\ last.op \in {"alloc", "alloc_input"} =>
          /\ Len(hints) = last.pre.nhints
          /\ current_constraint_index = last.pre.cci

\* two hints have been pushed, the second by the last enforce call
C2_Witness ==
    /\ last.op = "enforce"
    /\ Len(hints) = 2
    /\ last.pre.nhints = 1
    /\ hints[2][1] = 1

\* C3: enforce with A = C = c1*x + c0 and B the bare constant 1 appends one
\* IntoSingleAdditionGate hint (c1, 0, -1, c0) and mints one auxiliary variable.
C3_IdentityTimesOneIsRewritten ==
    \A c1 \in Fr, c0 \in Fr :
        (/\ last.op = "enforce"
         /\ args.a = <<Term(X, c1), Term(cs_one, c0)>>
         /\ args.b = <<Term(cs_one, one_fr)>>
         /\ args.c = args.a)
        => /\ ~fatal
           /\ hints = <<<<0, IntoSingleAdditionGate(<<c1, zero_fr, negate(one_fr), c0>>)>>>>
           /\ current_plonk_aux_idx = last.pre.aux + 1

\* C4: enforce with A = a1*v + a0, B = b1*v + b0 (explicit One terms) and C
\* a bare constant c appends exactly one IntoQuadraticGate hint
\* (a0*b0 - c, a1*b0 + a0*b1, a1*b1), and leaves both variable counters as
\* they were; for A = B = x - 1, C = 0 the hint is (1, -2, 1).
C4_QuadraticGate ==
    /\ (/\ last.op = "enforce"
        /\ IsLinear(args.a) /\ IsLinear(args.b)
        /\ VarOf(args.a) = VarOf(args.b)
        /\ IsBare(args.c))
        => /\ ~fatal
           /\ hints = <<<<0, IntoQuandaticGate(
                <<sub(mul(OneCoeff(args.a), OneCoeff(args.b)), BareValue(args.c)),
                  add(mul(VarCoeff(args.a), OneCoeff(args.b)),
                      mul(OneCoeff(args.a), VarCoeff(args.b))),
                  mul(VarCoeff(args.a), VarCoeff(args.b))>>)>>>>
           /\ current_plonk_aux_idx = last.pre.aux
           /\ current_plonk_input_idx = last.pre.input
    /\ (/\ last.op = "enforce"
        /\ args.a = <<Term(X, one_fr), Term(cs_one, negate(one_fr))>>
        /\ args.b = args.a
        /\ IsBare(args.c) /\ BareValue(args.c) = zero_fr)
        => hints[1][2].coefs = <<one_fr, negate(2 % P), one_fr>>

\* (x - 1) * (x - 1) = c with c # 0 has produced a quadratic-gate hint
C4_Witness ==
    /\ last.op = "enforce"
    /\ args.a = <<Term(X, one_fr), Term(cs_one, negate(one_fr))>>
    /\ args.b = <<Term(cs_one, negate(one_fr)), Term(X, one_fr)>>
    /\ args.c = <<Term(cs_one, one_fr)>>
    /\ Len(hints) = 1
    /\ hints[1][2].tag = "IntoQuandaticGate"

\* the coefficients of hint h scaled by m, the constant then reduced by f
Scaled(h, m, f) ==
    [h EXCEPT !.coefs = <<mul(h.coefs[1], m), mul(h.coefs[2], m), mul(h.coefs[3], m),
                          sub(mul(h.coefs[4], m), f)>>,
              !.extra = [i \in 1..Len(h.extra) |-> mul(h.extra[i], m)]]
\* the hint of rewrite_lc(lc, 1, 0)
UnitHint(lc) == rewrite_lc(new, lc, one_fr, zero_fr).hint

C6_ChainOfKMinusOneGates ==
    (/\ last.op = "rewrite_lc"
     /\ NumVars(args.a) > 2
     /\ (args.m # zero_fr \/ args.f = zero_fr))
    => /\ last.ret.ok
       /\ last.ret.hint.tag = "IntoMultipleAdditionGates"
       /\ Len(last.ret.hint.extra) = NumVars(args.a) - 2

\* C7: enforce on three bare constants is fatal, whether or not A*B = C; no
\* hint is appended and the three counters keep their values.
C7_AllConstantsIsFatal ==
    (/\ last.op = "enforce"
     /\ IsBare(args.a) /\ IsBare(args.b) /\ IsBare(args.c))
    => /\ fatal
       /\ Len(hints) = last.pre.nhints
       /\ CountersKept

\* 2 * 3 = 1 (true in the field when P = 5) was enforced
C7_Witness ==
    /\ last.op = "enforce"
    /\ fatal
    /\ args.a = <<Term(cs_one, 2 % P)>>
    /\ args.b = <<Term(cs_one, 3 % P)>>
    /\ args.c = <<Term(cs_one, 1)>>

\* C8: rewrite_lc with a zero multiplier and a nonzero free term is fatal,
\* whatever the number of variables; so enforce with a zero constant side, a
\* non-constant other side and a nonzero constant C is fatal and appends no hint.
C8_ZeroMultiplierNonzeroFreeTermIsFatal ==
    /\ (last.op = "rewrite_lc" /\ args.m = zero_fr /\ args.f # zero_fr)
       => (fatal /\ ~last.ret.ok /\ Len(hints) = last.pre.nhints)
    /\ (/\ last.op = "enforce"
        /\ IsBare(args.c) /\ BareValue(args.c) # zero_fr
        /\ \/ IsBare(args.a) /\ BareValue(args.a) = zero_fr /\ ~IsBare(args.b)
           \/ IsBare(args.b) /\ BareValue(args.b) = zero_fr /\ ~IsBare(args.a))
       => (fatal /\ Len(hints) = last.pre.nhints)

\* 0 * (2x + 1) = 1 was enforced: the rewriter minted its variable and the
\* assertion of rewrite_lc then failed
C8_Witness ==
    /\ last.op = "enforce"
    /\ fatal
    /\ args.a = <<>>
    /\ args.b = <<Term(X, 2 % P), Term(cs_one, 1)>>
    /\ args.c = <<Term(cs_one, 1)>>
    /\ Len(last.rw) = 1 /\ ~last.rw[1].ok
    /\ last.rw[1].post_aux = last.rw[1].pre_aux + 1

RECURSIVE TotalLen(_)
TotalLen(chunks) ==
    IF chunks = <<>> THEN 0 ELSE Head(chunks).len + TotalLen(Tail(chunks))

\* C9: for every length L >= 0 and num_chunks >= 1, split never underflows,
\* the chunk lengths sum to L while split, every chunk fits its capacity, and
\* after merge and into_single the vector has length L and its capacity.
C9_SplitMergeRoundTrip ==
    /\ cv.panic \notin {"attempt to subtract with overflow",
                        "attempt to add with overflow"}
    /\ cv.variant = "Multiple" =>
          /\ TotalLen(cv.chunks) = cv.original.len
          /\ \A i \in 1..Len(cv.chunks) : cv.chunks[i].len <= cv.chunks[i].cap
    /\ cv.variant = "Returned" => cv.chunks = <<cv.original>>

\* C10: a rewrite_lc call that returns, on a combination of k distinct
\* variables, advances current_plonk_aux_idx by 1 when 1 <= k <= 2 and by
\* k - 1 when k > 2, returns Aux(the new counter) and leaves
\* current_plonk_input_idx alone; no call of alloc, alloc_input or enforce
\* decreases either counter.
C10_OneAuxIndexPerMintedVariable ==
    /\ \A i \in 1..Len(last.rw) :
          last.rw[i].ok =>
             /\ NumVars(last.rw[i].lc) >= 1
             /\ last.rw[i].post_aux - last.rw[i].pre_aux =
                   IF NumVars(last.rw[i].lc) <= 2 THEN 1 ELSE NumVars(last.rw[i].lc) - 1
             /\ last.rw[i].var = Aux(last.rw[i].post_aux)
             /\ last.rw[i].post_input = last.rw[i].pre_input
    /\ current_plonk_aux_idx >= last.pre.aux
    /\ current_plonk_input_idx >= last.pre.input

\* the general arm rewrote three combinations, of one and of two variables,
\* after an alloc and an alloc_input
C10_Witness ==
    /\ last.op = "enforce"
    /\ calls.alloc = 1 /\ calls.alloc_input = 1
    /\ Len(last.rw) = 3
    /\ \A i \in 1..3 : last.rw[i].ok
    /\ NumVars(last.rw[1].lc) = 1
    /\ NumVars(last.rw[2].lc) = 2
    /\ current_plonk_aux_idx = last.pre.aux + 3

\* C11: over any sequence of alloc, alloc_input and enforce calls, every
\* handle returned by alloc or alloc_input or minted by a rewriter differs
\* from every handle returned earlier and from One = Input(1): the public
\* handles are Input(2), Input(3), ... and the auxiliary handles Aux(1),
\* Aux(2), ... in minting order.
C11_HandlesAreFresh ==
    /\ \A i \in 1..Len(minted) : minted[i] # cs_one
    /\ \A i \in 1..Len(minted) : \A j \in 1..Len(minted) :
          i # j => minted[i] # minted[j]
    /\ \A i \in 1..Len(minted) :
          minted[i] =
             IF minted[i].role = "Input"
             THEN Input(1 + Cardinality({j \in 1..i : minted[j].role = "Input"}))
             ELSE Aux(Cardinality({j \in 1..i : minted[j].role = "Aux"}))

\* an alloc and an alloc_input returned a handle each, and then the general
\* arm of enforce minted one handle in each of its three rewrite_lc calls
C11_Witness ==
    /\ last.op = "enforce" /\ ~fatal
    /\ calls.alloc = 1 /\ calls.alloc_input = 1
    /\ Len(last.rw) = 3
    /\ Len(minted) = 5
    /\ minted[5] = last.rw[3].var
    /\ \E i \in 1..2 : minted[i].role = "Input"

\* the call that ended with r, if it returned, left scratch empty
LeftEmpty(r) == r.ok => r.t.scratch = {}

\* C12: scratch is empty on entry to and on exit from every helper that uses
\* it (num_unique_values, is_linear_term, is_quadratic_gate, both rewriters,
\* rewrite_lc), on every return path, so it is empty between any two enforce
\* calls of a run that has not hit a fatal condition.  The helpers are
\* entered, on the arguments of the run, with the scratch the Transpiler
\* holds before the call and with the scratch the call left.
C12_ScratchIsEmptyBetweenHelpers ==
    ~fatal =>
       /\ scratch = {}
       /\ args.op = "rewrite_lc" =>
             /\ num_unique_values(args.a, scratch).scratch = {}
             /\ LeftEmpty(rewrite_lc_into_single_addition_gate(args.a, this))
             /\ LeftEmpty(rewrite_lc_into_multiple_addition_gates(args.a, this))
             /\ LeftEmpty(rewrite_lc(this, args.a, args.m, args.f))
       /\ args.op = "enforce" =>
             /\ is_linear_term(args.a, scratch).scratch = {}
             /\ is_linear_term(args.b, scratch).scratch = {}
             /\ is_quadratic_gate(args.a, args.b, args.c, scratch).scratch = {}
             /\ LeftEmpty(enforce(this, args.a, args.b, args.c))

\* an enforce call went through both is_linear_term calls of
\* is_quadratic_gate, each of which found one variable in scratch, pushed
\* the gate and returned: the state a second enforce call starts from
C12_Witness ==
    /\ ~fatal /\ last.op = "enforce"
    /\ calls.enforce = 1
    /\ args.a = <<Term(X, 1), Term(cs_one, 2 % P)>>
    /\ args.b = <<Term(cs_one, 1), Term(X, 2 % P)>>
    /\ Len(hints) = 1
    /\ hints[1][2].tag = "IntoQuandaticGate"
    /\ scratch = {}

\* C13: num_unique_values(lc, scratch) returns (contains_constant, n) where
\* contains_constant is true if and only if lc has a term whose variable is
\* One, and n is the number of distinct variables of lc other than One, each
\* counted once however many terms reference it.  Stated of the call that
\* rewrite_lc makes on its argument.
C13_NumUniqueValues ==
    last.op = "rewrite_lc" =>
       /\ num_unique_values(args.a, new.scratch).contains_constant
             = (\E i \in 1..Len(args.a) : args.a[i][1] = cs_one)
       /\ num_unique_values(args.a, new.scratch).n = NumVars(args.a)

====
